---- MODULE Spec2Model ----
(***************************************************************************)
(* Width-constrained wrapping of table cells (tabled, features/width/wrap). *)
(*                                                                         *)
(* A string is a sequence of tokens.  A token is one glyph of the text or  *)
(* one escape sequence:                                                    *)
(*   "a"  a narrow glyph (1 column)      " "  the space character          *)
(*   "W"  a wide glyph (2 columns)       "Z"  a zero-width glyph           *)
(*   "NL" the line feed                  "T"  the tab character            *)
(*   "R"  U+FFFD, the replacement marker (1 column)                        *)
(*   "s1","s2"  style-opening escapes    "e1","e2"  their closing escapes  *)
(*   "L"  OSC 8 hyperlink opening (with its url)   "l"  OSC 8 closing      *)
(***************************************************************************)
EXTENDS Integers, Sequences, FiniteSets, TLC

\* ------------------------------------------------------------- bounds
MaxLen == 3
MaxWidth == 3

\* ------------------------------------------------------------- glyphs
REPLACEMENT == "R"
NL == "NL"
Glyphs == {"a", " ", "W", "Z", NL}
StyleIds == {1, 2}

style_start(k) == IF k = 1 THEN <<"s1">> ELSE IF k = 2 THEN <<"s2">> ELSE <<>>
style_end(k) == IF k = 1 THEN <<"e1">> ELSE IF k = 2 THEN <<"e2">> ELSE <<>>
IsStart(c) == c \in {"s1", "s2"}
IsEnd(c) == c \in {"e1", "e2"}
IsLink(c) == c \in {"L", "l"}
IsEscape(c) == IsStart(c) \/ IsEnd(c) \/ IsLink(c)

\* unicode_width::UnicodeWidthChar::width(c).unwrap_or(0): control characters
\* (line feed included) measure None, hence 0.
c_width(c) ==
    CASE c = "W" -> 2
      [] c \in {"a", " ", "R"} -> 1
      [] OTHER -> 0

RECURSIVE str_width(_)
str_width(s) == IF s = <<>> THEN 0 ELSE c_width(Head(s)) + str_width(Tail(s))

RECURSIVE repeat(_, _)
repeat(c, n) == IF n <= 0 THEN <<>> ELSE <<c>> \o repeat(c, n - 1)

RECURSIVE join(_, _)
join(list, sep) ==
    IF list = <<>> THEN <<>>
    ELSE IF Len(list) = 1 THEN list[1]
    ELSE list[1] \o sep \o join(Tail(list), sep)

\* str::split(' ') / str::split('\n'): the pieces between separators, empty
\* pieces included; the empty string gives one empty piece.
RECURSIVE split_on(_, _, _)
split_on(s, sep, cur) ==
    IF s = <<>> THEN <<cur>>
    ELSE IF Head(s) = sep THEN <<cur>> \o split_on(Tail(s), sep, <<>>)
    ELSE split_on(Tail(s), sep, Append(cur, Head(s)))

split(s, sep) == split_on(s, sep, <<>>)

Max2(a, b) == IF a >= b THEN a ELSE b

RECURSIVE max_width_of(_)
max_width_of(list) ==
    IF list = <<>> THEN 0 ELSE Max2(str_width(list[1]), max_width_of(Tail(list)))

\* papergrid::util::string_width_multiline: the widest line of the text.
string_width_multiline(s) == max_width_of(split(s, NL))

\* ------------------------------------------- split_string_at / split_at_pos
\* papergrid::util::split_at_pos(text, pos) -> (length, count_unknowns, split_char_size)
RECURSIVE split_at_pos_loop(_, _, _, _)
split_at_pos_loop(s, pos, length, i) ==
    IF s = <<>> \/ i = pos THEN <<length, 0, 0>>
    ELSE LET cw == c_width(Head(s)) IN
         IF i + cw > pos THEN <<length, pos - i, 1>>
         ELSE split_at_pos_loop(Tail(s), pos, length + 1, i + cw)

split_at_pos(s, pos) == split_at_pos_loop(s, pos, 0, 0)

split_string_at(text, at) ==
    LET r == split_at_pos(text, at) IN
    [lhs |-> SubSeq(text, 1, r[1]),
     rhs |-> SubSeq(text, r[1] + 1, Len(text)),
     unknowns |-> r[2],
     split_char |-> r[3]]

\* split_rest when the glyph that was cut is not skipped
split_rest_mut(r) == r.rhs

\* wrap.rs:321, 400  part = &rhs[split_char..]
split_rest(r) == SubSeq(r.rhs, r.split_char + 1, Len(r.rhs))

\* ------------------------------------------------------ chunks (no color)
\* chunks_overflows when no glyph is ever replaced
chunks_overflows_never(i, cw, width) == FALSE

\* chunks_overflows with the comparison off by one
chunks_overflows_mut(i, cw, width) == i + cw > width + 1

\* wrap.rs:246  if i + c_width > width
chunks_overflows(i, cw, width) == i + cw > width

\* chunks_line_full that closes the line one column early
chunks_line_full_mut(i, width) == i >= width - 1

\* wrap.rs:255  if i == width: the line is pushed
chunks_line_full(i, width) == i = width

\* chunks_count_unknowns one short
chunks_count_unknowns_mut(i, width) == width - i - 1

\* wrap.rs:247  let count_unknowns = width - i
chunks_count_unknowns(i, width) == width - i

\* The loop over the chars; what it leaves: list, buf, i.
RECURSIVE chunks_loop(_, _, _, _, _)
chunks_loop(s, width, buf, list, i) ==
    IF s = <<>> THEN [list |-> list, buf |-> buf, i |-> i]
    ELSE LET c == Head(s)
             cw == c_width(c)
             over == chunks_overflows(i, cw, width)
             count_unknowns == chunks_count_unknowns(i, width)
             buf1 == IF over THEN buf \o repeat(REPLACEMENT, count_unknowns)
                     ELSE Append(buf, c)
             i1 == IF over THEN i + count_unknowns ELSE i + cw
         IN IF chunks_line_full(i1, width)
            THEN chunks_loop(Tail(s), width, <<>>, Append(list, buf1), 0)
            ELSE chunks_loop(Tail(s), width, buf1, list, i1)

\* wrap.rs:262  if !buf.is_empty() { list.push(buf) }
chunks_rest(st) == IF st.buf # <<>> THEN Append(st.list, st.buf) ELSE st.list

\* chunks without its early return for width == 0
chunks_noguard(s, width) == chunks_rest(chunks_loop(s, width, <<>>, <<>>, 0))

chunks(s, width) ==
    IF width = 0 THEN <<>> ELSE chunks_rest(chunks_loop(s, width, <<>>, <<>>, 0))

\* ----------------------------------------- split_keeping_words (no color)
\* The state of the loop over the words: lines, line, line_width, is_first_word.
\* wrap.rs:395-414  one iteration of while !word_part.is_empty(), taken
\* alone: what is left of the word and the state after it
skw_split_step(word_part, width, st) ==
    LET r == split_string_at(word_part, width - st.line_width)
        lw == st.line_width + str_width(r.lhs) + r.unknowns
        line == st.line \o r.lhs \o repeat(REPLACEMENT, r.unknowns)
    IN [rest |-> split_rest(r),
        st |-> IF lw = width
               THEN [lines |-> Append(st.lines, line), line |-> <<>>,
                     line_width |-> 0, is_first_word |-> TRUE]
               ELSE [lines |-> st.lines, line |-> line,
                     line_width |-> lw, is_first_word |-> FALSE]]

RECURSIVE skw_split_word(_, _, _)
skw_split_word(word_part, width, st) ==
    IF word_part = <<>> THEN st
    ELSE LET available_space == width - st.line_width
             r == split_string_at(word_part, available_space)
             lw == st.line_width + str_width(r.lhs) + r.unknowns
             line == st.line \o r.lhs \o repeat(REPLACEMENT, r.unknowns)
         IN IF lw = width
            THEN skw_split_word(split_rest(r), width,
                     [lines |-> Append(st.lines, line), line |-> <<>>,
                      line_width |-> 0, is_first_word |-> TRUE])
            ELSE skw_split_word(split_rest(r), width,
                     [lines |-> st.lines, line |-> line,
                      line_width |-> lw, is_first_word |-> FALSE])

\* skw_moves_word when every word is taken to fit a line
skw_moves_word_mut(word_width, width) == TRUE

\* wrap.rs:380  if word_width <= width: the word goes whole to a new line
skw_moves_word(word_width, width) == word_width <= width

\* wrap.rs:358-360  if !is_first_word { let line_has_space = line_width < width
skw_has_space(is_first_word, line_width, width) ==
    (~is_first_word) /\ line_width < width

\* wrap.rs:358-369  the separator before a word: line and line_width after it
skw_sep(st, width) ==
    IF skw_has_space(st.is_first_word, st.line_width, width)
    THEN [line |-> Append(st.line, " "), line_width |-> st.line_width + 1]
    ELSE [line |-> st.line, line_width |-> st.line_width]

skw_word(word, width, st) ==
    LET line0 == skw_sep(st, width).line
        lw0 == skw_sep(st, width).line_width
        word_width == str_width(word)
    IN IF lw0 + word_width <= width
       THEN [lines |-> st.lines, line |-> line0 \o word,
             line_width |-> lw0 + word_width, is_first_word |-> FALSE]
       ELSE IF skw_moves_word(word_width, width)
       THEN [lines |-> Append(st.lines, line0 \o repeat(" ", width - lw0)),
             line |-> word, line_width |-> word_width, is_first_word |-> FALSE]
       ELSE skw_split_word(word, width,
                [lines |-> st.lines, line |-> line0, line_width |-> lw0,
                 is_first_word |-> FALSE])

RECURSIVE skw_words(_, _, _)
skw_words(words, width, st) ==
    IF words = <<>> THEN st
    ELSE skw_words(Tail(words), width, skw_word(Head(words), width, st))

split_keeping_words(s, width, sep) ==
    LET st == skw_words(split(s, " "), width,
                  [lines |-> <<>>, line |-> <<>>, line_width |-> 0,
                   is_first_word |-> TRUE])
        lines == IF st.line_width > 0
                 THEN Append(st.lines, st.line \o repeat(" ", width - st.line_width))
                 ELSE st.lines
    IN join(lines, sep)

\* ------------------------------------------------------ wrap_text (no color)
wrap_text(text, width, keep_words) ==
    IF width = 0 THEN <<>>
    ELSE IF keep_words THEN split_keeping_words(text, width, <<NL>>)
    ELSE join(chunks(text, width), <<NL>>)

\* ---------------------------------------------------------- color build
\* papergrid::util::strip_osc: the text without its OSC 8 hyperlink escapes,
\* and the url when there was one.
strip_osc(text) ==
    [text |-> SelectSeq(text, LAMBDA c : ~IsLink(c)),
     url |-> \E k \in DOMAIN text : text[k] = "L"]

build_link_prefix_suffix(url) ==
    IF url THEN [prefix |-> <<"L">>, suffix |-> <<"l">>]
    ELSE [prefix |-> <<>>, suffix |-> <<>>]

\* ansi_str::get_blocks: the runs of text between escapes, each with the
\* style in force (0: unstyled, start() and end() empty).
style_of(c) == IF c = "s1" THEN 1 ELSE IF c = "s2" THEN 2 ELSE 0

RECURSIVE get_blocks_loop(_, _, _)
get_blocks_loop(s, style, cur) ==
    LET flush == IF cur = <<>> THEN <<>> ELSE <<[text |-> cur, style |-> style]>>
    IN IF s = <<>> THEN flush
       ELSE IF IsStart(Head(s)) \/ IsEnd(Head(s))
       THEN flush \o get_blocks_loop(Tail(s), style_of(Head(s)), <<>>)
       ELSE get_blocks_loop(Tail(s), style, Append(cur, Head(s)))

get_blocks(s) == get_blocks_loop(s, 0, <<>>)

\* ------------------------------------------------------- chunks (color)
\* The state of the loop over the blocks: list, line, line_width.
cc_close(b, prefix, suffix, st, line) ==
    [list |-> Append(st.list, line \o style_end(b.style) \o suffix),
     line |-> prefix \o style_start(b.style),
     line_width |-> 0]

\* wrap.rs:291-332  one iteration of while !part.is_empty(), taken alone:
\* what is left of the part (nothing after the break) and the state after it
cc_part_step(part, b, width, prefix, suffix, st) ==
    LET available_space == width - st.line_width
        part_width == str_width(part)
    IN IF part_width <= available_space
       THEN [rest |-> <<>>,
             st |-> IF available_space = 0
                    THEN cc_close(b, prefix, suffix, st, st.line \o part)
                    ELSE [list |-> st.list, line |-> st.line \o part,
                          line_width |-> st.line_width + part_width]]
       ELSE LET r == split_string_at(part, available_space)
                line == st.line \o r.lhs \o repeat(REPLACEMENT, r.unknowns)
                lw == st.line_width + str_width(r.lhs) + r.unknowns
            IN [rest |-> split_rest(r),
                st |-> IF lw = width
                       THEN cc_close(b, prefix, suffix, st, line)
                       ELSE [list |-> st.list, line |-> line, line_width |-> lw]]

RECURSIVE cc_part(_, _, _, _, _, _)
cc_part(part, b, width, prefix, suffix, st) ==
    IF part = <<>> THEN st
    ELSE LET available_space == width - st.line_width
             part_width == str_width(part)
         IN IF part_width <= available_space
            THEN LET line == st.line \o part
                     lw == st.line_width + part_width
                 IN IF available_space = 0
                    THEN cc_close(b, prefix, suffix, st, line)
                    ELSE [list |-> st.list, line |-> line, line_width |-> lw]
            ELSE LET r == split_string_at(part, available_space)
                     line == st.line \o r.lhs \o repeat(REPLACEMENT, r.unknowns)
                     lw == st.line_width + str_width(r.lhs) + r.unknowns
                 IN IF lw = width
                    THEN cc_part(split_rest(r), b, width, prefix, suffix,
                                 cc_close(b, prefix, suffix, st, line))
                    ELSE cc_part(split_rest(r), b, width, prefix, suffix,
                                 [list |-> st.list, line |-> line, line_width |-> lw])

\* cc_block_prefix when the prefix is not pushed
cc_block_prefix_mut(prefix) == <<>>

\* wrap.rs:286  line.push_str(prefix), once per block
cc_block_prefix(prefix) == prefix

cc_block(b, width, prefix, suffix, st) ==
    IF b.text = <<>> THEN st
    ELSE LET st0 == [st EXCEPT !.line = st.line \o cc_block_prefix(prefix)
                                             \o style_start(b.style)]
             st1 == cc_part(b.text, b, width, prefix, suffix, st0)
         IN IF st1.line_width > 0
            THEN [st1 EXCEPT !.line = st1.line \o style_end(b.style)]
            ELSE st1

RECURSIVE cc_blocks(_, _, _, _, _)
cc_blocks(blocks, width, prefix, suffix, st) ==
    IF blocks = <<>> THEN st
    ELSE cc_blocks(Tail(blocks), width, prefix, suffix,
                   cc_block(Head(blocks), width, prefix, suffix, st))

chunks_color(s, width, prefix, suffix) ==
    IF width = 0 THEN <<>>
    ELSE LET st == cc_blocks(get_blocks(s), width, prefix, suffix,
                             [list |-> <<>>, line |-> <<>>, line_width |-> 0])
         IN IF st.line_width > 0 THEN Append(st.list, st.line \o suffix)
            ELSE st.list

\* ------------------------------------------ split_keeping_words (color)
\* The state of the loop over the characters: buf, line_width,
\* word_begin_pos, word_length, is_empty_buf.
insert_str(buf, pos, str) ==
    SubSeq(buf, 1, pos) \o str \o SubSeq(buf, pos + 1, Len(buf))

\* wrap.rs:442  the closure split: end, suffix, line feed, prefix, start
skwc_sep(block, prefix, suffix) ==
    style_end(block.style) \o suffix \o <<NL>> \o prefix \o style_start(block.style)

skwc_char(c, block, width, prefix, suffix, st) ==
    LET cw == c_width(c)
        is_enough_space == st.line_width + cw <= width
        sep == skwc_sep(block, prefix, suffix)
    IN IF c = " "
       THEN LET buf0 == IF ~is_enough_space THEN st.buf \o sep ELSE st.buf
                lw0 == IF ~is_enough_space THEN 0 ELSE st.line_width
            IN [buf |-> Append(buf0, c), line_width |-> lw0 + 1,
                word_begin_pos |-> 0, word_length |-> 0, is_empty_buf |-> FALSE]
       ELSE LET is_first_c == st.word_length = 0
                wbp == IF is_first_c THEN Len(st.buf) ELSE st.word_begin_pos
                partial_word_width == st.word_length + cw
                is_word_small == partial_word_width <= width
                is_big_char == cw > width
            IN IF is_enough_space
               THEN [buf |-> Append(st.buf, c), line_width |-> st.line_width + cw,
                     word_begin_pos |-> wbp, word_length |-> st.word_length + cw,
                     is_empty_buf |-> FALSE]
               ELSE IF is_word_small
               THEN [buf |-> Append(IF ~st.is_empty_buf
                                    THEN insert_str(st.buf, wbp, sep)
                                    ELSE st.buf, c),
                     line_width |-> partial_word_width,
                     word_begin_pos |-> wbp, word_length |-> st.word_length + cw,
                     is_empty_buf |-> FALSE]
               ELSE LET buf0 == IF ~st.is_empty_buf THEN st.buf \o sep ELSE st.buf
                    IN IF is_big_char
                       THEN [buf |-> buf0 \o repeat(REPLACEMENT, width),
                             line_width |-> width, word_begin_pos |-> wbp,
                             word_length |-> width, is_empty_buf |-> FALSE]
                       ELSE [buf |-> Append(buf0, c), line_width |-> cw,
                             word_begin_pos |-> wbp,
                             word_length |-> st.word_length + cw,
                             is_empty_buf |-> FALSE]

RECURSIVE skwc_chars(_, _, _, _, _, _)
skwc_chars(s, block, width, prefix, suffix, st) ==
    IF s = <<>> THEN st
    ELSE skwc_chars(Tail(s), block, width, prefix, suffix,
                    skwc_char(Head(s), block, width, prefix, suffix, st))

skwc_block(block, width, prefix, suffix, st) ==
    IF block.text = <<>> THEN st
    ELSE LET st0 == [st EXCEPT !.buf = st.buf \o style_start(block.style)]
             st1 == skwc_chars(block.text, block, width, prefix, suffix, st0)
         IN [st1 EXCEPT !.buf = st1.buf \o style_end(block.style)]

RECURSIVE skwc_blocks(_, _, _, _, _)
skwc_blocks(blocks, width, prefix, suffix, st) ==
    IF blocks = <<>> THEN st
    ELSE skwc_blocks(Tail(blocks), width, prefix, suffix,
                     skwc_block(Head(blocks), width, prefix, suffix, st))

split_keeping_words_color(text, width, prefix, suffix) ==
    IF text = <<>> \/ width = 0 THEN <<>>
    ELSE LET st == skwc_blocks(get_blocks(text), width, prefix, suffix,
                       [buf |-> prefix, line_width |-> 0, word_begin_pos |-> 0,
                        word_length |-> 0, is_empty_buf |-> TRUE])
             buf1 == IF st.line_width > 0 THEN st.buf \o suffix ELSE st.buf
         IN IF st.line_width < width
            THEN buf1 \o repeat(" ", width - st.line_width)
            ELSE buf1

\* ------------------------------------------------------ wrap_text (color)
wrap_text_color(text0, width, keep_words) ==
    IF width = 0 THEN <<>>
    ELSE LET so == strip_osc(text0)
             ps == build_link_prefix_suffix(so.url)
         IN IF keep_words
            THEN split_keeping_words_color(so.text, width, ps.prefix, ps.suffix)
            ELSE join(chunks_color(so.text, width, ps.prefix, ps.suffix), <<NL>>)

\* ======================================================================
\* The wrapping of one text: wrap_text applied to an input, in either build.
\* ======================================================================
RECURSIVE SeqsUpTo(_, _)
SeqsUpTo(S, n) ==
    IF n = 0 THEN {<<>>}
    ELSE LET shorter == SeqsUpTo(S, n - 1)
         IN shorter \cup {Append(t, c) : t \in {u \in shorter : Len(u) = n - 1}, c \in S}

PlainTexts == SeqsUpTo(Glyphs, MaxLen)

styled(k, t) == IF t = <<>> THEN <<>> ELSE style_start(k) \o t \o style_end(k)

linked(url, t) == IF url THEN <<"L">> \o t \o <<"l">> ELSE t

\* A text of the color build: at most two style runs, inside a hyperlink or not.
StyledTexts ==
    UNION {
        {linked(url, styled(k1, SubSeq(t, 1, cut)) \o styled(k2, SubSeq(t, cut + 1, Len(t)))) :
            url \in BOOLEAN, k1 \in {0, 1}, k2 \in {0, 1, 2}, cut \in 0..Len(t)} :
        t \in PlainTexts}

\* wrap_text as the build compiles it
wrap(c, t, w, kw) == IF c THEN wrap_text_color(t, w, kw) ELSE wrap_text(t, w, kw)

\* ======================================================================
\* The column-width allocator (decrease_widths) and its priority policies,
\* as TableOption::change runs them.
\* ======================================================================
MaxCols == 3
MaxColWidth == 3

Policies == {"None", "Max", "Min"}

RECURSIVE Sum(_)
Sum(v) == IF v = <<>> THEN 0 ELSE Head(v) + Sum(Tail(v))

\* Eligible when only an empty column is left alone
Eligible_mut(w, m) == {i \in DOMAIN w : w[i] > 0}

\* the columns a policy may pick: those whose width exceeds their minimum
Eligible(w, m) == {i \in DOMAIN w : w[i] > m[i]}

\* peak_none when every sweep starts again at the first column
peak_none_mut(w, m, last) ==
    IF Eligible(w, m) = {} THEN 0
    ELSE CHOOSE i \in Eligible(w, m) : \A j \in Eligible(w, m) : i <= j

\* PriorityNone: the first eligible column in cyclic order after the last pick
peak_none(w, m, last) ==
    LET n == Len(w)
        order == [k \in 1..n |-> ((last + k - 1) % n) + 1]
        hits == {k \in 1..n : order[k] \in Eligible(w, m)}
    IN IF hits = {} THEN 0
       ELSE order[CHOOSE k \in hits : \A j \in hits : k <= j]

\* peak_max when the last of the widest columns is taken
peak_max_mut(w, m) ==
    LET el == Eligible(w, m)
    IN IF el = {} THEN 0
       ELSE CHOOSE i \in el : \A j \in el : w[i] > w[j] \/ (w[i] = w[j] /\ i >= j)

\* PriorityMax: the widest eligible column, the lowest index among ties
peak_max(w, m) ==
    LET el == Eligible(w, m)
    IN IF el = {} THEN 0
       ELSE CHOOSE i \in el : \A j \in el : w[i] > w[j] \/ (w[i] = w[j] /\ i <= j)

\* peak_min when the minimums are not looked at (only an empty column is
\* left alone)
peak_min_mut(w, m) ==
    LET el == {i \in DOMAIN w : w[i] > 0}
    IN IF el = {} THEN 0
       ELSE CHOOSE i \in el : \A j \in el : w[i] < w[j] \/ (w[i] = w[j] /\ i <= j)

\* PriorityMin: the narrowest eligible column, the lowest index among ties
peak_min(w, m) ==
    LET el == Eligible(w, m)
    IN IF el = {} THEN 0
       ELSE CHOOSE i \in el : \A j \in el : w[i] < w[j] \/ (w[i] = w[j] /\ i <= j)

\* Peaker::peak: the next column to shrink, 0 when none is left
peak(p, w, m, last) ==
    CASE p = "None" -> peak_none(w, m, last)
      [] p = "Max" -> peak_max(w, m)
      [] OTHER -> peak_min(w, m)

\* decrease_one when a round takes two units from the column
decrease_one_mut(w, col) == [w EXCEPT ![col] = w[col] - 2]

\* one round of decrease_widths: the column shrinks by one
decrease_one(w, col) == [w EXCEPT ![col] = w[col] - 1]

\* decrease_widths: shrink one unit at a time until the total fits or no
\* column is left above its minimum; the widths it leaves
RECURSIVE decrease_widths(_, _, _, _, _, _)
decrease_widths(w, m, tot, tgt, p, last) ==
    LET col == peak(p, w, m, last)
    IN IF tot = tgt \/ col = 0 THEN w
       ELSE decrease_widths(decrease_one(w, col), m, tot - 1, tgt, p, col)

\* change_returns_early when the early return is missing
change_returns_early_mut(w, total_width) == FALSE

\* wrap.rs:148  if width >= total_width { return; }
change_returns_early(w, total_width) == w >= total_width


\* ======================================================================
\* A table and the two options: Wrap as a CellOption (change_cell) and as a
\* TableOption (change, wrap_total_width).
\* ======================================================================
MaxCells == 4

CellTexts == {<<"a", "a">>, <<"a", " ", "W">>, <<"T", NL, "a">>}
TabWidths == {1, 3}
NoCache == [valid |-> FALSE, widths |-> <<>>]
cached(ws) == [valid |-> TRUE, widths |-> ws]

count_rows(t) == Len(t)
count_cols(t) == IF Len(t) = 0 THEN 0 ELSE Len(t[1])

\* Table::is_empty
is_empty(t) == count_rows(t) = 0 \/ count_cols(t) = 0

\* papergrid::util::replace_tab: each tab becomes tab_width spaces
RECURSIVE replace_tab(_, _)
replace_tab(t, n) ==
    IF t = <<>> THEN <<>>
    ELSE (IF Head(t) = "T" THEN repeat(" ", n) ELSE <<Head(t)>>) \o replace_tab(Tail(t), n)

\* Records::get_width under CfgWidthFunction: the widest line, tabs counted
\* as tab_width columns
get_width(t, n) == string_width_multiline(replace_tab(t, n))

RECURSIVE col_width(_, _, _, _)
col_width(t, col, row, n) ==
    IF row > count_rows(t) THEN 0
    ELSE Max2(get_width(t[row][col], n), col_width(t, col, row + 1, n))

\* get_table_widths: per column, the width of its widest cell
get_table_widths(t, n) == [c \in 1..count_cols(t) |-> col_width(t, c, 1, n)]

\* get_table_widths(EmptyRecords::new(rows, cols), cfg)
get_min_widths(t) == [c \in 1..count_cols(t) |-> 0]

ev(name, pos, w) == [op |-> name, pos |-> pos, width |-> w]
NoPos == <<0, 0>>

\* Entity::iter(count_rows, count_cols): the positions an entity covers
Entities(t) ==
    {[kind |-> "global", row |-> 0, col |-> 0]}
    \cup {[kind |-> "row", row |-> r, col |-> 0] : r \in 1..count_rows(t)}
    \cup {[kind |-> "column", row |-> 0, col |-> c] : c \in 1..count_cols(t)}
    \cup {[kind |-> "cell", row |-> r, col |-> c] :
             r \in 1..count_rows(t), c \in 1..count_cols(t)}

covers(e, r, c) ==
    CASE e.kind = "global" -> TRUE
      [] e.kind = "row" -> e.row = r
      [] e.kind = "column" -> e.col = c
      [] OTHER -> e.row = r /\ e.col = c

RECURSIVE positions_from(_, _, _, _)
positions_from(t, e, r, c) ==
    IF r > count_rows(t) THEN <<>>
    ELSE IF c > count_cols(t) THEN positions_from(t, e, r + 1, 1)
    ELSE (IF covers(e, r, c) THEN <<(<<r, c>>)>> ELSE <<>>)
         \o positions_from(t, e, r, c + 1)

entity_iter(t, e) == positions_from(t, e, 1, 1)

\* change_cell_skips with a strict comparison
change_cell_skips_mut(cell_width, w) == cell_width < w

\* wrap.rs:107  if cell_width <= width { continue; }
change_cell_skips(cell_width, w) == cell_width <= w

\* the body of the loop of change_cell, for one position
change_cell_pos(st, pos, w, kw, c, n) ==
    LET t == st.cells[pos[1]][pos[2]]
        cell_width == get_width(t, n)
    IN IF change_cell_skips(cell_width, w) THEN st
       ELSE LET wrapped == wrap(c, replace_tab(t, n), w, kw)
            IN [st EXCEPT
                  !.cells = [st.cells EXCEPT ![pos[1]][pos[2]] = wrapped],
                  !.ops = @ \o <<ev("wrap_text", pos, w), ev("set", pos, w)>>,
                  !.assert_ok = @ /\ w >= string_width_multiline(wrapped)]

RECURSIVE change_cell_loop(_, _, _, _, _, _)
change_cell_loop(st, ps, w, kw, c, n) ==
    IF ps = <<>> THEN st
    ELSE change_cell_loop(change_cell_pos(st, Head(ps), w, kw, c, n),
                          Tail(ps), w, kw, c, n)

\* CellOption::change_cell
change_cell(st, e, w, kw, c, n) ==
    [change_cell_loop(st, entity_iter(st.cells, e), w, kw, c, n) EXCEPT
        !.width_cache = NoCache,
        !.ops = @ \o <<ev("destroy_width_cache", NoPos, 0)>>]

\* get_decrease_cell_list(cfg, &widths, &min_widths, shape): it is given the
\* widths and the shape, not the records; every position, column by column,
\* with the width its column got.  A cell that fits is skipped by change_cell.
RECURSIVE decrease_cells_from(_, _, _, _, _, _)
decrease_cells_from(w, m, rows, cols, r, c) ==
    IF c > cols THEN <<>>
    ELSE IF r > rows THEN decrease_cells_from(w, m, rows, cols, 1, c + 1)
    ELSE (IF w[c] >= m[c] THEN <<[pos |-> <<r, c>>, width |-> w[c]]>> ELSE <<>>)
         \o decrease_cells_from(w, m, rows, cols, r + 1, c)

get_decrease_cell_list(w, m, rows, cols) == decrease_cells_from(w, m, rows, cols, 1, 1)

RECURSIVE wrap_points(_, _, _, _, _)
wrap_points(st, points, kw, c, n) ==
    IF points = <<>> THEN st
    ELSE LET p == Head(points)
             e == [kind |-> "cell", row |-> p.pos[1], col |-> p.pos[2]]
         IN wrap_points(change_cell(st, e, p.width, kw, c, n), Tail(points), kw, c, n)

\* wrap_total_width when the widths are stored before the caches are destroyed
wrap_total_width_cache_first(st, ws, total_width, w, kw, priority, c, n) ==
    LET min_widths == get_min_widths(st.cells)
        ws1 == decrease_widths(ws, min_widths, total_width, w, priority, 0)
        points == get_decrease_cell_list(ws1, min_widths, count_rows(st.cells),
                                         count_cols(st.cells))
        st0 == [st EXCEPT !.ops = @ \o <<ev("decrease_widths", NoPos, w),
                                         ev("get_decrease_cell_list", NoPos, w)>>]
    IN [wrap_points(st0, points, kw, c, n) EXCEPT
           !.height_cache = FALSE,
           !.width_cache = NoCache,
           !.ops = @ \o <<ev("cache_width", NoPos, 0),
                          ev("destroy_height_cache", NoPos, 0),
                          ev("destroy_width_cache", NoPos, 0)>>]

\* wrap_total_width when the cells are listed with the widths as they were
\* before decrease_widths
wrap_total_width_stale(st, ws, total_width, w, kw, priority, c, n) ==
    LET min_widths == get_min_widths(st.cells)
        ws1 == decrease_widths(ws, min_widths, total_width, w, priority, 0)
        points == get_decrease_cell_list(ws, min_widths, count_rows(st.cells),
                                         count_cols(st.cells))
        st0 == [st EXCEPT !.ops = @ \o <<ev("decrease_widths", NoPos, w),
                                         ev("get_decrease_cell_list", NoPos, w)>>]
    IN [wrap_points(st0, points, kw, c, n) EXCEPT
           !.height_cache = FALSE,
           !.width_cache = cached(ws1),
           !.ops = @ \o <<ev("destroy_height_cache", NoPos, 0),
                          ev("destroy_width_cache", NoPos, 0),
                          ev("cache_width", NoPos, 0)>>]

wrap_total_width(st, ws, total_width, w, kw, priority, c, n) ==
    LET min_widths == get_min_widths(st.cells)
        ws1 == decrease_widths(ws, min_widths, total_width, w, priority, 0)
        points == get_decrease_cell_list(ws1, min_widths, count_rows(st.cells),
                                         count_cols(st.cells))
        st0 == [st EXCEPT !.ops = @ \o <<ev("decrease_widths", NoPos, w),
                                         ev("get_decrease_cell_list", NoPos, w)>>]
    IN [wrap_points(st0, points, kw, c, n) EXCEPT
           !.height_cache = FALSE,
           !.width_cache = cached(ws1),
           !.ops = @ \o <<ev("destroy_height_cache", NoPos, 0),
                          ev("destroy_width_cache", NoPos, 0),
                          ev("cache_width", NoPos, 0)>>]

\* change without its early return for width >= total_width
change_always_wraps(st, w, kw, priority, c, n) ==
    IF is_empty(st.cells) THEN st
    ELSE LET ws == get_table_widths(st.cells, n)
         IN wrap_total_width(st, ws, Sum(ws), w, kw, priority, c, n)

\* TableOption::change
change(st, w, kw, priority, c, n) ==
    IF is_empty(st.cells) THEN st
    ELSE LET ws == get_table_widths(st.cells, n)
             total_width == Sum(ws)
         IN IF change_returns_early(w, total_width) THEN st
            ELSE wrap_total_width(st, ws, total_width, w, kw, priority, c, n)

Tables ==
    {<<>>, <<(<<>>)>>}
    \cup UNION {[1..rc[1] -> [1..rc[2] -> CellTexts]] :
                   rc \in {x \in (1..MaxCells) \X (1..MaxCells) : x[1] * x[2] <= MaxCells}}

\* ======================================================================
\* The derive macro: info_from_fields and reorder_fields (tabled_derive)
\* ======================================================================
MaxFields == 3

\* the attributes of a field the reordering looks at: #[tabled(skip)] and
\* #[tabled(order = n)]
FieldAttrs ==
    {[ignored |-> ig, has_order |-> FALSE, order |-> 0] : ig \in BOOLEAN}
    \cup {[ignored |-> ig, has_order |-> TRUE, order |-> o] :
             ig \in BOOLEAN, o \in 0..MaxFields}

FieldLists == SeqsUpTo(FieldAttrs, MaxFields)

\* HashMap::insert(order, index): a later entry for the same key replaces
\* the earlier one
hash_insert(map, key, value) ==
    [k \in DOMAIN map \cup {key} |-> IF k = key THEN value ELSE map[k]]

\* lib.rs:171-195  the loop over the fields; a field is named by its number
\* (from 1), values holds the fields that are not ignored
RECURSIVE fields_loop(_, _, _)
fields_loop(fields, k, st) ==
    IF k > Len(fields) THEN st
    ELSE IF fields[k].ignored
    THEN fields_loop(fields, k + 1, [st EXCEPT !.skipped = @ + 1])
    ELSE IF fields[k].has_order /\ fields[k].order >= Len(fields)
    THEN [st EXCEPT !.err = TRUE]
    ELSE fields_loop(fields, k + 1,
            [st EXCEPT
                !.reorder = IF fields[k].has_order
                            THEN hash_insert(@, fields[k].order, (k - 1) - st.skipped)
                            ELSE @,
                !.values = Append(@, k)])

\* lib.rs:231-239  the slots left empty take the elements no entry names, in
\* order; elements[j] past the end panics
RECURSIVE reorder_fill(_, _, _, _, _)
reorder_fill(order, elements, out, p, j) ==
    IF p > Len(out) THEN [kind |-> "ok", values |-> out]
    ELSE IF out[p] # 0 THEN reorder_fill(order, elements, out, p + 1, j)
    ELSE LET taken == {order[k] : k \in DOMAIN order}
             free == {x \in j..Len(elements) : x \notin taken}
             j1 == CHOOSE x \in free : \A y \in free : x <= y
         IN IF j1 >= Len(elements) THEN [kind |-> "panic", values |-> <<>>]
            ELSE reorder_fill(order, elements, [out EXCEPT ![p] = elements[j1 + 1]],
                              p + 1, j1 + 1)

\* lib.rs:217-243  reorder_fields; 0 stands for None; out[*pos] and
\* elements[*index] past the end panic
reorder_fields(order, elements) ==
    IF \E pos \in DOMAIN order : pos >= Len(elements) \/ order[pos] >= Len(elements)
    THEN [kind |-> "panic", values |-> <<>>]
    ELSE reorder_fill(order, elements,
             [p \in 1..Len(elements) |->
                 IF (p - 1) \in DOMAIN order THEN elements[order[p - 1] + 1] ELSE 0],
             1, 0)

\* lib.rs:148-215  info_from_fields: the values of the implementation, or the
\* error of the bound check, or a panic of reorder_fields
info_from_fields(fields) ==
    LET st == fields_loop(fields, 1,
                  [skipped |-> 0, reorder |-> <<>>, values |-> <<>>, err |-> FALSE])
    IN IF st.err THEN [kind |-> "err", values |-> <<>>]
       ELSE IF DOMAIN st.reorder = {} THEN [kind |-> "ok", values |-> st.values]
       ELSE reorder_fields(st.reorder, st.values)

\* -------------------------------------------------------------- state
VARIABLES
    \* wrap_text applied to one text
    color,       \* the build: TRUE when the feature "color" is on
    text,        \* the text handed to wrap_text
    width,       \* the width handed to wrap_text
    keep_words,  \* Wrap::keep_words
    pc,          \* "ready" | "done" | "again"
    out,         \* wrap_text(text, width, keep_words)
    out2,        \* wrap_text(out, width, keep_words)
    \* the allocator run by TableOption::change
    widths,      \* the column width vector, mutated in place
    minimums,    \* min_widths: the widths of the same table without content
    total,       \* the running total of widths
    target,      \* the measured width the table is to fit
    policy,      \* the Peaker: "None" | "Max" | "Min"
    cursor,      \* the column the policy picked last (0: none yet)
    apc,         \* "call" | "run" | "done" | "returned"
    \* a table and the option applied to it
    cells,         \* the records: a sequence of rows, each a sequence of texts
    tab_width,     \* the configured tab width
    width_cache,   \* the cached column widths; not valid once destroyed
    height_cache,  \* TRUE while the cached heights are valid
    ops,           \* what the last option did, in order
    assert_ok,     \* FALSE once the debug assertion of change_cell failed
    before,        \* the cells and the caches as they were when the last option began
    opt,           \* the last option applied
    tpc,           \* "idle" | "applied"
    \* the derive macro expanding one struct or inlined variant
    fields,        \* the attributes of its fields, in order
    dpc,           \* "parsed" | "expanded"
    expansion      \* what info_from_fields returned

wvars == <<color, text, width, keep_words, pc, out, out2>>
avars == <<widths, minimums, total, target, policy, cursor, apc>>
tvars == <<cells, tab_width, width_cache, height_cache, ops, assert_ok, before, opt, tpc>>
dvars == <<fields, dpc, expansion>>
vars == <<wvars, avars, tvars, dvars>>

\* ======================================================================
\* wrap_text applied to one text, in either build
\* ======================================================================
NoTable == [cells |-> <<>>, width_cache |-> NoCache, height_cache |-> FALSE]

NoImpl == [kind |-> "ok", values |-> <<>>]
NoOpt == [kind |-> "none", width |-> 0, keep_words |-> FALSE,
          entity |-> [kind |-> "global", row |-> 0, col |-> 0], policy |-> "None"]

InitWrap ==
    /\ color \in BOOLEAN
    /\ text \in (IF color THEN StyledTexts ELSE PlainTexts)
    /\ width \in 0..MaxWidth
    /\ keep_words \in BOOLEAN
    /\ pc = "ready"
    /\ out = <<>>
    /\ out2 = <<>>
    /\ widths = <<>> /\ minimums = <<>> /\ total = 0 /\ target = 0
    /\ policy = "None" /\ cursor = 0 /\ apc = "returned"
    /\ cells = <<>> /\ tab_width = 1 /\ width_cache = NoCache
    /\ height_cache = FALSE /\ ops = <<>> /\ assert_ok = TRUE
    /\ before = NoTable /\ opt = NoOpt /\ tpc = "applied"
    /\ fields = <<>> /\ dpc = "expanded" /\ expansion = NoImpl

WrapText ==
    /\ pc = "ready"
    /\ out' = wrap(color, text, width, keep_words)
    /\ pc' = "done"
    /\ UNCHANGED <<color, text, width, keep_words, out2, avars, tvars, dvars>>

\* the wrapped text is wrapped again at the same width
WrapAgain ==
    /\ pc = "done"
    /\ out2' = wrap(color, out, width, keep_words)
    /\ pc' = "again"
    /\ UNCHANGED <<color, text, width, keep_words, out, avars, tvars, dvars>>

NextWrap == WrapText \/ WrapAgain

SpecWrap == InitWrap /\ [][NextWrap]_vars

\* ======================================================================
\* The allocator inside TableOption::change, one loop iteration at a time
\* ======================================================================
WidthVectors(n) == [1..n -> 0..MaxColWidth]

InitAlloc ==
    /\ \E n \in 1..MaxCols :
          /\ widths \in WidthVectors(n)
          /\ minimums \in WidthVectors(n)
    /\ \A i \in DOMAIN widths : minimums[i] <= widths[i]
    /\ total = Sum(widths)
    /\ target \in 0..(MaxCols * MaxColWidth)
    /\ policy \in Policies
    /\ cursor = 0
    /\ apc = "call"
    /\ color = FALSE /\ text = <<>> /\ width = 0 /\ keep_words = FALSE
    /\ pc = "ready" /\ out = <<>> /\ out2 = <<>>
    /\ cells = <<>> /\ tab_width = 1 /\ width_cache = NoCache
    /\ height_cache = FALSE /\ ops = <<>> /\ assert_ok = TRUE
    /\ before = NoTable /\ opt = NoOpt /\ tpc = "applied"
    /\ fields = <<>> /\ dpc = "expanded" /\ expansion = NoImpl

\* TableOption::change up to the call of decrease_widths
AllocEnter ==
    /\ apc = "call"
    /\ apc' = IF change_returns_early(target, total) THEN "returned" ELSE "run"
    /\ UNCHANGED <<widths, minimums, total, target, policy, cursor, wvars, tvars, dvars>>

\* one iteration of the loop of decrease_widths
AllocStep ==
    /\ apc = "run"
    /\ total # target
    /\ peak(policy, widths, minimums, cursor) # 0
    /\ LET col == peak(policy, widths, minimums, cursor)
       IN /\ widths' = decrease_one(widths, col)
          /\ cursor' = col
    /\ total' = total - 1
    /\ UNCHANGED <<minimums, target, policy, apc, wvars, tvars, dvars>>

\* the loop ends: decrease_widths returns
AllocStop ==
    /\ apc = "run"
    /\ (total = target \/ peak(policy, widths, minimums, cursor) = 0)
    /\ apc' = "done"
    /\ UNCHANGED <<widths, minimums, total, target, policy, cursor, wvars, tvars, dvars>>

NextAlloc == AllocEnter \/ AllocStep \/ AllocStop

SpecAlloc == InitAlloc /\ [][NextAlloc]_vars

\* change and decrease_widths are straight-line code and a loop run by one
\* thread: a call that can take a step takes it.
SpecAllocFair == InitAlloc /\ [][NextAlloc]_vars /\ WF_vars(NextAlloc)

\* ======================================================================
\* One option applied to a table
\* ======================================================================
table_state == [cells |-> cells, width_cache |-> width_cache,
                height_cache |-> height_cache, ops |-> <<>>, assert_ok |-> assert_ok]

InitTable ==
    /\ cells \in Tables
    /\ tab_width \in TabWidths
    /\ width_cache \in {NoCache, cached(get_table_widths(cells, tab_width))}
    /\ height_cache = TRUE
    /\ ops = <<>>
    /\ assert_ok = TRUE
    /\ before = [cells |-> cells, width_cache |-> width_cache, height_cache |-> TRUE]
    /\ opt = NoOpt
    /\ tpc = "idle"
    /\ color \in BOOLEAN
    /\ text = <<>> /\ width = 0 /\ keep_words = FALSE
    /\ pc = "ready" /\ out = <<>> /\ out2 = <<>>
    /\ widths = <<>> /\ minimums = <<>> /\ total = 0 /\ target = 0
    /\ policy = "None" /\ cursor = 0 /\ apc = "returned"
    /\ fields = <<>> /\ dpc = "expanded" /\ expansion = NoImpl

Applied(st) ==
    /\ cells' = st.cells
    /\ width_cache' = st.width_cache
    /\ height_cache' = st.height_cache
    /\ ops' = st.ops
    /\ assert_ok' = st.assert_ok
    /\ before' = [cells |-> cells, width_cache |-> width_cache,
                  height_cache |-> height_cache]
    /\ tpc' = "applied"
    /\ UNCHANGED <<tab_width, wvars, avars, dvars>>

\* table.with(Modify::new(entity).with(Width::wrap(w)))
ChangeCell ==
    /\ tpc = "idle"
    /\ \E w \in 0..MaxWidth, kw \in BOOLEAN, e \in Entities(cells) :
          /\ \E st \in {change_cell(table_state, e, w, kw, color, tab_width)} :
                Applied(st)
          /\ opt' = [kind |-> "cell", width |-> w, keep_words |-> kw,
                     entity |-> e, policy |-> "None"]

\* table.with(Width::wrap(w).priority::<P>())
Change ==
    /\ tpc = "idle"
    /\ \E w \in 0..MaxWidth, kw \in BOOLEAN, p \in Policies :
          /\ \E st \in {change(table_state, w, kw, p, color, tab_width)} :
                Applied(st)
          /\ opt' = [kind |-> "table", width |-> w, keep_words |-> kw,
                     entity |-> [kind |-> "global", row |-> 0, col |-> 0],
                     policy |-> p]

NextTable == ChangeCell \/ Change

SpecTable == InitTable /\ [][NextTable]_vars

\* ======================================================================
\* The derive macro expanding one list of fields
\* ======================================================================
InitDerive ==
    /\ fields \in FieldLists
    /\ dpc = "parsed"
    /\ expansion = NoImpl
    /\ color = FALSE /\ text = <<>> /\ width = 0 /\ keep_words = FALSE
    /\ pc = "ready" /\ out = <<>> /\ out2 = <<>>
    /\ widths = <<>> /\ minimums = <<>> /\ total = 0 /\ target = 0
    /\ policy = "None" /\ cursor = 0 /\ apc = "returned"
    /\ cells = <<>> /\ tab_width = 1 /\ width_cache = NoCache
    /\ height_cache = FALSE /\ ops = <<>> /\ assert_ok = TRUE
    /\ before = NoTable /\ opt = NoOpt /\ tpc = "applied"

\* #[derive(Tabled)] on the struct: info_from_fields
Expand ==
    /\ dpc = "parsed"
    /\ expansion' = info_from_fields(fields)
    /\ dpc' = "expanded"
    /\ UNCHANGED <<fields, wvars, avars, tvars>>

NextDerive == Expand

SpecDerive == InitDerive /\ [][NextDerive]_vars

\* ======================================================================
\* Properties of wrap_text (SpecWrap)
\* ======================================================================
\* the output split on the line feed
lines_of(s) == split(s, NL)

\* the glyphs of a text, its escape sequences left out
visible(s) == SelectSeq(s, LAMBDA c : ~IsEscape(c))

HasNL(s) == \E k \in DOMAIN s : s[k] = NL

last_line(s) == lines_of(s)[Len(lines_of(s))]

\* word occurs in line, glyph after glyph
contains(line, word) ==
    \E k \in 0..(Len(line) - Len(word)) : SubSeq(line, k + 1, k + Len(word)) = word

count_of(s, c) == Cardinality({k \in DOMAIN s : s[k] = c})

\* the words of a text: the maximal runs of glyphs other than the space
words_of(s) == {w \in {split(visible(s), " ")[k] : k \in DOMAIN split(visible(s), " ")} : w # <<>>}

\* C1: for every text and every width > 0, with and without keep_words, every
\* line of wrap_text(text, width, keep_words) has rendered width <= width, so
\* the condition of the debug assertion of change_cell
\* (width >= string_width_multiline(wrapped)) holds.
WidthBound ==
    (pc # "ready" /\ width > 0) =>
        /\ \A k \in DOMAIN lines_of(out) : str_width(lines_of(out)[k]) <= width
        /\ width >= string_width_multiline(out)

WidthBoundWitness ==
    /\ pc = "done" /\ width > 0
    /\ str_width(text) > width
    /\ Len(lines_of(out)) > 1
    /\ \E k \in DOMAIN lines_of(out) : str_width(lines_of(out)[k]) = width

\* C2: for every text and both values of keep_words, wrap_text(text, 0,
\* keep_words) is the empty string, and chunks(text, 0) is the empty list.
ZeroWidth ==
    /\ (pc # "ready" /\ width = 0) => out = <<>>
    /\ IF color
       THEN chunks_color(strip_osc(text).text, 0, <<"L">>, <<"l">>) = <<>>
       ELSE chunks(text, 0) = <<>>

ZeroWidthWitness ==
    /\ pc = "done" /\ width = 0 /\ keep_words
    /\ str_width(text) > 0
    /\ out = <<>>

\* C3 as stated: in keep-words mode, for width > 0 and a non-empty output,
\* every line of the output has rendered width exactly width.  Stated for a
\* text without line feeds, where the lines of the output are the lines
\* split_keeping_words made.
Rectangular ==
    (pc # "ready" /\ keep_words /\ width > 0 /\ out # <<>> /\ ~HasNL(text)) =>
        \A k \in DOMAIN lines_of(out) : str_width(lines_of(out)[k]) = width

\* C3 amended: in keep-words mode, for width > 0 and a non-empty output: in
\* the build without color every line split_keeping_words joins has rendered
\* width exactly width (a line feed of the input counts as a zero-width glyph
\* of its line); in the color build every line has rendered width <= width
\* and, for a text without line feeds, the last line has width exactly width.
RectangularLastLine ==
    (pc # "ready" /\ keep_words /\ width > 0 /\ out # <<>>) =>
        IF color
        THEN /\ \A k \in DOMAIN lines_of(out) : str_width(lines_of(out)[k]) <= width
             /\ ~HasNL(text) => str_width(last_line(out)) = width
        ELSE LET joined == split(split_keeping_words(text, width, <<"|">>), "|")
             IN /\ out = join(joined, <<NL>>)
                /\ \A k \in DOMAIN joined : str_width(joined[k]) = width

RectangularWitness ==
    /\ pc = "done" /\ keep_words /\ width > 1
    /\ ~HasNL(text)
    /\ Len(lines_of(out)) > 1
    /\ \E k \in DOMAIN text : text[k] = " "
    /\ \E k \in DOMAIN out : out[k] = " " /\ (k = Len(out) \/ out[k + 1] = NL)

\* C4: in keep-words mode, for width > 0, every word (a maximal run of glyphs
\* other than the space) of rendered width <= width is whole on one line of
\* the output.  Stated for the words of positive width of a text without
\* line feeds.
WordsPreserved ==
    (pc # "ready" /\ keep_words /\ width > 0 /\ ~HasNL(text)) =>
        \A w \in words_of(text) :
            (str_width(w) > 0 /\ str_width(w) <= width) =>
                \E k \in DOMAIN lines_of(out) : contains(visible(lines_of(out)[k]), w)

\* C9: wrapping without keep_words is idempotent: wrapping the wrapped text
\* again at the same width > 0 gives the same set of lines.
PlainIdempotent ==
    (pc = "again" /\ ~keep_words /\ width > 0) =>
        {lines_of(out2)[k] : k \in DOMAIN lines_of(out2)}
            = {lines_of(out)[k] : k \in DOMAIN lines_of(out)}

\* C10: in the color build, when the text carried a hyperlink, every line of
\* the output holds the prefix exactly once, before all its glyphs, and the
\* suffix exactly once, after all its glyphs (the spaces that pad the last
\* line aside); without a hyperlink the output holds neither.  Stated for a
\* text without line feeds.
LinkOncePerLine ==
    (pc # "ready" /\ color /\ width > 0 /\ out # <<>> /\ ~HasNL(text)) =>
        IF strip_osc(text).url
        THEN \A k \in DOMAIN lines_of(out) :
                LET line == lines_of(out)[k]
                IN /\ count_of(line, "L") = 1
                   /\ count_of(line, "l") = 1
                   /\ line[1] = "L"
                   /\ \A i, j \in DOMAIN line :
                         (line[i] = "l" /\ ~IsEscape(line[j]) /\ line[j] # " ") => j < i
        ELSE count_of(out, "L") = 0 /\ count_of(out, "l") = 0

\* the style a line is left in after its escapes: 0 when none is open, -1
\* once an escape came out of turn (a start while a style is open, an end
\* that is not the end of the open style)
RECURSIVE style_after(_, _)
style_after(line, open) ==
    IF line = <<>> \/ open = -1 THEN open
    ELSE LET c == Head(line)
         IN IF IsStart(c)
            THEN style_after(Tail(line), IF open = 0 THEN style_of(c) ELSE -1)
            ELSE IF IsEnd(c)
            THEN style_after(Tail(line), IF open # 0 /\ style_end(open) = <<c>> THEN 0 ELSE -1)
            ELSE style_after(Tail(line), open)

\* the glyphs of a text, each with the style it is under (0: none)
RECURSIVE styled_glyphs(_, _)
styled_glyphs(s, open) ==
    IF s = <<>> THEN <<>>
    ELSE LET c == Head(s)
         IN IF IsStart(c) THEN styled_glyphs(Tail(s), style_of(c))
            ELSE IF IsEnd(c) THEN styled_glyphs(Tail(s), 0)
            ELSE IF IsLink(c) \/ c = NL THEN styled_glyphs(Tail(s), open)
            ELSE <<(<<c, open>>)>> \o styled_glyphs(Tail(s), open)

\* C11: in the color build, on every line of the output each style-opening
\* escape is followed on that line by the end of the same run before any other
\* style escape, no line ends with a style open, and every glyph of the input
\* that is in the output is there under the style of its run.  Stated for a
\* text without line feeds, zero-width glyphs and wide glyphs, where no glyph
\* is replaced.
StyleBalance ==
    (/\ pc # "ready" /\ color /\ width > 0
     /\ \A k \in DOMAIN text : text[k] \notin {NL, "Z", "W"}) =>
        /\ \A k \in DOMAIN lines_of(out) : style_after(lines_of(out)[k], 0) = 0
        /\ LET got == styled_glyphs(out, 0)
               given == styled_glyphs(text, 0)
           IN /\ Len(got) >= Len(given)
              /\ SubSeq(got, 1, Len(given)) = given

\* the list chunks returns for the text, in the build at hand
chunks_of_text ==
    IF color
    THEN LET so == strip_osc(text)
             ps == build_link_prefix_suffix(so.url)
         IN chunks_color(so.text, width, ps.prefix, ps.suffix)
    ELSE chunks(text, width)

is_suffix(t, s) == Len(t) <= Len(s) /\ SubSeq(s, Len(s) - Len(t) + 1, Len(s)) = t

\* C12: without keep_words, for width > 0, every line chunks returns except
\* the last has rendered width exactly width, no line is empty, and a last
\* line that is not full holds glyphs of the text only (its end, with no
\* space or replacement marker after it).  In the color build the glyphs of
\* a line are the line without its escapes.
PlainLineShape ==
    (pc # "ready" /\ ~keep_words /\ width > 0) =>
        LET list == chunks_of_text
        IN /\ out = join(list, <<NL>>)
           /\ \A k \in DOMAIN list :
                 /\ visible(list[k]) # <<>>
                 /\ k < Len(list) => str_width(list[k]) = width
           /\ (list # <<>> /\ str_width(list[Len(list)]) < width) =>
                 is_suffix(visible(list[Len(list)]), visible(text))

PlainLineShapeWitness ==
    /\ pc = "done" /\ ~color /\ ~keep_words /\ width > 1
    /\ Len(chunks_of_text) > 1
    /\ str_width(chunks_of_text[Len(chunks_of_text)]) < width
    /\ \E k \in DOMAIN out : out[k] = "R"

\* the text but its last glyph, and that glyph
but_last(s) == SubSeq(s, 1, Len(s) - 1)
last_of(s) == s[Len(s)]

\* C13: without keep_words, whenever the next glyph is wider than the r
\* columns left on the line (r = width - the width used), exactly r
\* replacement markers are appended to the line, the line is closed at
\* exactly width columns, and the glyph is in the output nowhere.  Stated on
\* the last glyph of the text, the text before it being any text; in the
\* color build the lines are, their escapes aside, those of the other build
\* (for a text without line feeds and zero-width glyphs).
ReplacementPolicy ==
    (width > 0 /\ visible(text) # <<>>) =>
        LET t == visible(text)
            st == chunks_loop(but_last(t), width, <<>>, <<>>, 0)
            nx == chunks_loop(t, width, <<>>, <<>>, 0)
            r == width - st.i
            closed == st.buf \o repeat(REPLACEMENT, r)
        IN /\ c_width(last_of(t)) > r =>
                /\ nx.list = Append(st.list, closed)
                /\ str_width(closed) = width
                /\ nx.buf = <<>> /\ nx.i = 0
                /\ count_of(join(chunks(t, width), <<NL>>), last_of(t))
                      = count_of(join(st.list, <<NL>>) \o st.buf, last_of(t))
           /\ (pc # "ready" /\ ~keep_words /\ ~color) => out = join(chunks_rest(nx), <<NL>>)
           /\ (pc # "ready" /\ ~keep_words /\ color
                 /\ \A k \in DOMAIN t : t[k] \notin {NL, "Z"}) =>
                 /\ Len(chunks_of_text) = Len(chunks_rest(nx))
                 /\ \A k \in DOMAIN chunks_of_text :
                       visible(chunks_of_text[k]) = chunks_rest(nx)[k]

\* wide glyphs only, at width 1: one line of one marker per glyph
ReplacementPolicyWitness ==
    /\ pc = "done" /\ ~keep_words /\ width = 1
    /\ Len(visible(text)) = MaxLen
    /\ \A k \in DOMAIN visible(text) : visible(text)[k] = "W"
    /\ Len(lines_of(out)) = MaxLen
    /\ \A k \in DOMAIN lines_of(out) : visible(lines_of(out)[k]) = <<REPLACEMENT>>

\* C14 as stated: without keep_words, when a glyph that a line can hold is
\* wider than what is left of the current line, the line is closed with
\* replacement markers and the next line starts with that glyph.  Stated on
\* the last glyph of the text, which then is the last line.
OverflowCarried ==
    (pc # "ready" /\ ~keep_words /\ width > 0 /\ visible(text) # <<>>) =>
        LET t == visible(text)
            st == chunks_loop(but_last(t), width, <<>>, <<>>, 0)
            list == chunks_of_text
        IN (c_width(last_of(t)) > width - st.i /\ c_width(last_of(t)) <= width) =>
              /\ list # <<>>
              /\ visible(list[Len(list)]) = <<last_of(t)>>

\* C14 amended: without keep_words, when a glyph is wider than what is left
\* of the current line, the line is closed at exactly width columns with
\* replacement markers, the glyph is dropped, and the next line starts with
\* the glyph that follows it.  Stated on the last two glyphs of the text.
OverflowDropped ==
    (width > 0 /\ Len(visible(text)) >= 2) =>
        LET t == visible(text)
            c == last_of(but_last(t))
            st == chunks_loop(but_last(but_last(t)), width, <<>>, <<>>, 0)
            closed == st.buf \o repeat(REPLACEMENT, width - st.i)
            nx == chunks_loop(<<last_of(t)>>, width, <<>>, Append(st.list, closed), 0)
        IN c_width(c) > width - st.i =>
              /\ str_width(closed) = width
              /\ chunks(t, width) = chunks_rest(nx)
              /\ (pc # "ready" /\ ~keep_words /\ ~color) => out = join(chunks_rest(nx), <<NL>>)
              /\ (pc # "ready" /\ ~keep_words /\ color
                    /\ \A k \in DOMAIN t : t[k] \notin {NL, "Z"}) =>
                    /\ Len(chunks_of_text) = Len(chunks_rest(nx))
                    /\ \A k \in DOMAIN chunks_of_text :
                          visible(chunks_of_text[k]) = chunks_rest(nx)[k]

OverflowDroppedWitness ==
    /\ pc = "done" /\ ~keep_words /\ width = 2
    /\ visible(text) = <<"a", "W", "a">>
    /\ Len(chunks_of_text) = 2
    /\ visible(chunks_of_text[1]) = <<"a", REPLACEMENT>>
    /\ visible(chunks_of_text[2]) = <<"a">>

\* the text of the color build without its hyperlink, its prefix and suffix,
\* and its blocks
link_of_text == build_link_prefix_suffix(strip_osc(text).url)
blocks_of_text == get_blocks(strip_osc(text).text)

\* what the loop of chunks (color) holds after the first block of the text
after_first_block ==
    cc_block(blocks_of_text[1], width, link_of_text.prefix, link_of_text.suffix,
             [list |-> <<>>, line |-> <<>>, line_width |-> 0])

\* the first of two style runs ends where its glyphs fill a line, and the
\* second run has glyphs to show
boundary_coincides ==
    /\ color /\ width > 0
    /\ Len(blocks_of_text) = 2
    /\ blocks_of_text[1].style # blocks_of_text[2].style
    /\ blocks_of_text[2].style # 0
    /\ after_first_block.line_width = width
    /\ str_width(blocks_of_text[2].text) > 0

\* C17 as stated: in chunks (color), when a style run ends where a line
\* reaches width columns, the closed line holds no start or end escape of the
\* following run, whose start is emitted once only, at the beginning of the
\* next line.
NoDuplicatedEscapes ==
    boundary_coincides =>
        LET b == blocks_of_text[2]
            k == Len(after_first_block.list) + 1
            list == chunks_of_text
            next_line == SelectSeq(list[k + 1], LAMBDA c : ~IsLink(c))
        IN /\ Len(list) > k
           /\ count_of(list[k], style_start(b.style)[1]) = 0
           /\ count_of(list[k], style_end(b.style)[1]) = 0
           /\ count_of(list[k + 1], style_start(b.style)[1]) = 1
           /\ next_line[1] = style_start(b.style)[1]

\* C17 amended: in chunks (color), when the glyphs of a style run fill a line
\* exactly and a following run has glyphs to show, the closed line ends with
\* the prefix and an empty start/end pair of the following run (then the
\* suffix), and the prefix and the start of the following run are emitted
\* again at the beginning of the next line, before its first glyph.
EmptyPairAtBoundary ==
    boundary_coincides =>
        LET b == blocks_of_text[2]
            ps == link_of_text
            k == Len(after_first_block.list) + 1
            list == chunks_of_text
            opening == ps.prefix \o style_start(b.style)
        IN /\ Len(list) > k
           /\ list[k] = after_first_block.line \o opening \o style_end(b.style) \o ps.suffix
           /\ str_width(list[k]) = width
           /\ Len(list[k + 1]) > Len(opening)
           /\ SubSeq(list[k + 1], 1, Len(opening)) = opening
           /\ ~IsEscape(list[k + 1][Len(opening) + 1])
           /\ (pc # "ready" /\ ~keep_words) => out = join(list, <<NL>>)

EmptyPairAtBoundaryWitness ==
    /\ boundary_coincides
    /\ pc = "done" /\ ~keep_words
    /\ strip_osc(text).url
    /\ blocks_of_text[1].style # 0
    /\ Len(chunks_of_text) = 2

\* the words of the text as split_keeping_words takes them, and the state of
\* its loop after the first k of them
skw_text_words == split(text, " ")
skw_after(k) ==
    skw_words(SubSeq(skw_text_words, 1, k), width,
              [lines |-> <<>>, line |-> <<>>, line_width |-> 0,
               is_first_word |-> TRUE])

\* C18 as stated: in split_keeping_words (no color), before the second of two
\* consecutive words exactly one space is appended to the current line
\* whenever its used width is below width, a fresh empty line started after
\* the split of a long word included, and none when the line is full.
SeparatorSpaces ==
    (~color /\ keep_words /\ width > 0) =>
        \A k \in 1 .. Len(skw_text_words) - 1 :
            (skw_text_words[k] # <<>> /\ skw_text_words[k + 1] # <<>> /\ ~HasNL(text)) =>
            skw_sep(skw_after(k), width).line =
                IF skw_after(k).line_width < width
                THEN Append(skw_after(k).line, " ")
                ELSE skw_after(k).line

\* the lines of chunks, escapes aside, the last one padded with spaces to
\* width columns, joined by line feeds
padded_last(list) ==
    IF list = <<>> THEN <<>>
    ELSE [list EXCEPT ![Len(list)] = @ \o repeat(" ", width - str_width(@))]

chunks_lines_padded ==
    join(padded_last([k \in DOMAIN chunks_of_text |-> visible(chunks_of_text[k])]),
         <<NL>>)

\* C19: for every text without a space and every width > 0, what
\* split_keeping_words returns is the lines of chunks for the same text and
\* width joined by line feeds, the last line padded with spaces to exactly
\* width columns (the escapes of the color build aside).
LongWordsAsPlain ==
    (width > 0 /\ keep_words /\ pc # "ready" /\ count_of(text, " ") = 0) =>
        visible(out) = chunks_lines_padded

\* the lines of chunks for a text, as the build makes them, escapes aside
chunks_visible(c, t, w) ==
    IF c
    THEN LET so == strip_osc(t)
             ps == build_link_prefix_suffix(so.url)
             list == chunks_color(so.text, w, ps.prefix, ps.suffix)
         IN [k \in DOMAIN list |-> visible(list[k])]
    ELSE chunks(t, w)

IsZeroWidth(c) == ~IsEscape(c) /\ c_width(c) = 0

without_zero_width(s) == SelectSeq(s, LAMBDA c : ~IsZeroWidth(c))

RECURSIVE flatten(_)
flatten(list) == IF list = <<>> THEN <<>> ELSE Head(list) \o flatten(Tail(list))

\* C24: without keep_words, a glyph of width 0 is always in the output (the
\* zero-width glyphs of the lines are those of the text, in order), is never
\* replaced by a marker and never causes a line break: the lines, their
\* zero-width glyphs aside, are the lines of the same text without its
\* zero-width glyphs.  Also after a line closed at width columns and for a
\* text of zero-width glyphs only.
ZeroWidthKept ==
    (~keep_words /\ width > 0) =>
        LET list == chunks_visible(color, text, width)
            bare == [k \in DOMAIN list |-> without_zero_width(list[k])]
        IN /\ SelectSeq(flatten(list), IsZeroWidth)
                 = SelectSeq(visible(text), IsZeroWidth)
           /\ SelectSeq(bare, LAMBDA l : l # <<>>)
                 = chunks_visible(color, without_zero_width(text), width)

\* the iterations a splitting loop is given for a part: one that consumes
\* nothing closes a line, and the next one consumes
loop_fuel(part) == 2 * Len(part) + 1

\* the loop of split_keeping_words over a long word, one iteration at a time:
\* each iteration consumes a glyph of the word or closes a line of width
\* columns and sets line_width to 0, and the word is used up within the fuel
RECURSIVE skw_loop_progress(_, _, _, _)
skw_loop_progress(word_part, w, st, fuel) ==
    IF word_part = <<>> THEN TRUE
    ELSE /\ fuel > 0
         /\ \E step \in {skw_split_step(word_part, w, st)} :
               /\ Len(step.rest) <= Len(word_part)
               /\ \/ Len(step.rest) < Len(word_part)
                  \/ /\ Len(step.st.lines) = Len(st.lines) + 1
                     /\ str_width(step.st.lines[Len(step.st.lines)]) = w
                     /\ step.st.line_width = 0
               /\ skw_loop_progress(step.rest, w, step.st, fuel - 1)

\* the state the iterations end in
RECURSIVE skw_loop_run(_, _, _, _)
skw_loop_run(word_part, w, st, fuel) ==
    IF word_part = <<>> \/ fuel = 0 THEN st
    ELSE skw_loop_run(skw_split_step(word_part, w, st).rest, w,
                      skw_split_step(word_part, w, st).st, fuel - 1)

\* the state in which the loop is entered for the word k of the text, if it is
skw_entry(k) ==
    [lines |-> skw_after(k - 1).lines,
     line |-> skw_sep(skw_after(k - 1), width).line,
     line_width |-> skw_sep(skw_after(k - 1), width).line_width,
     is_first_word |-> FALSE]

skw_splits(k) ==
    /\ skw_entry(k).line_width + str_width(skw_text_words[k]) > width
    /\ ~skw_moves_word(str_width(skw_text_words[k]), width)

\* the same for the loop of chunks (color) over the text of a block
RECURSIVE cc_loop_progress(_, _, _, _, _, _, _)
cc_loop_progress(part, b, w, prefix, suffix, st, fuel) ==
    IF part = <<>> THEN TRUE
    ELSE /\ fuel > 0
         /\ \E step \in {cc_part_step(part, b, w, prefix, suffix, st)} :
               /\ Len(step.rest) <= Len(part)
               /\ \/ Len(step.rest) < Len(part)
                  \/ /\ Len(step.st.list) = Len(st.list) + 1
                     /\ str_width(visible(step.st.list[Len(step.st.list)])) = w
                     /\ step.st.line_width = 0
               /\ cc_loop_progress(step.rest, b, w, prefix, suffix, step.st, fuel - 1)

RECURSIVE cc_loop_run(_, _, _, _, _, _, _)
cc_loop_run(part, b, w, prefix, suffix, st, fuel) ==
    IF part = <<>> \/ fuel = 0 THEN st
    ELSE cc_loop_run(cc_part_step(part, b, w, prefix, suffix, st).rest, b, w,
                     prefix, suffix,
                     cc_part_step(part, b, w, prefix, suffix, st).st, fuel - 1)

cc_entry(j) ==
    LET st == cc_blocks(SubSeq(blocks_of_text, 1, j - 1), width,
                        link_of_text.prefix, link_of_text.suffix,
                        [list |-> <<>>, line |-> <<>>, line_width |-> 0])
    IN [st EXCEPT !.line = @ \o link_of_text.prefix
                             \o style_start(blocks_of_text[j].style)]

\* C25: for every text and every width > 0, with and without keep_words and
\* in both builds, wrap_text returns; each iteration of the loops
\* while !word_part.is_empty() (split_keeping_words) and while
\* !part.is_empty() (chunks, color) consumes at least one character of what
\* is left or closes a line of width columns and sets the line width to 0,
\* also when the line has no column left, and the loop ends within
\* 2 * (characters of the part) + 1 iterations.
WrapTerminates ==
    width > 0 =>
        /\ (~color /\ keep_words) =>
              \A k \in DOMAIN skw_text_words :
                  skw_splits(k) =>
                     /\ skw_loop_progress(skw_text_words[k], width, skw_entry(k),
                                          loop_fuel(skw_text_words[k]))
                     /\ skw_loop_run(skw_text_words[k], width, skw_entry(k),
                                     loop_fuel(skw_text_words[k]))
                           = skw_split_word(skw_text_words[k], width, skw_entry(k))
        /\ (color /\ ~keep_words) =>
              \A j \in DOMAIN blocks_of_text :
                  /\ cc_loop_progress(blocks_of_text[j].text, blocks_of_text[j], width,
                                      link_of_text.prefix, link_of_text.suffix,
                                      cc_entry(j), loop_fuel(blocks_of_text[j].text))
                  /\ cc_loop_run(blocks_of_text[j].text, blocks_of_text[j], width,
                                 link_of_text.prefix, link_of_text.suffix,
                                 cc_entry(j), loop_fuel(blocks_of_text[j].text))
                        = cc_part(blocks_of_text[j].text, blocks_of_text[j], width,
                                  link_of_text.prefix, link_of_text.suffix, cc_entry(j))
        /\ pc # "ready" => out = wrap(color, text, width, keep_words)

\* wrap_text has returned for a text whose long word entered the loop with no
\* column left on the line: the first iteration consumed nothing
WrapTerminatesWitness ==
    /\ width > 0 /\ ~color /\ keep_words /\ pc = "done"
    /\ \E k \in DOMAIN skw_text_words :
          /\ skw_splits(k)
          /\ skw_entry(k).line_width = width
          /\ skw_split_step(skw_text_words[k], width, skw_entry(k)).rest
                = skw_text_words[k]

\* C26: without keep_words, for every width > 0 and every text (without
\* escape sequences) for which chunks emits no replacement marker, the lines
\* of chunks put one after the other are the text: no character is dropped,
\* doubled or moved.
PlainLossless ==
    (~keep_words /\ width > 0 /\ visible(text) = text
       /\ count_of(flatten(chunks_of_text), REPLACEMENT) = 0) =>
        flatten(chunks_of_text) = text

\* C27: for every text without escape sequences, every width and both values
\* of keep_words, wrap_text of the color build returns the string wrap_text
\* of the build without color returns.
BuildsAgree ==
    visible(text) = text =>
        wrap_text_color(text, width, keep_words) = wrap_text(text, width, keep_words)

\* ======================================================================
\* Properties of the allocator (SpecAlloc)
\* ======================================================================
\* C7: when change runs the allocator (target < total = sum(widths),
\* widths[i] >= minimums[i]) then, under every policy, once it has returned
\* sum(widths) = max(target, sum(minimums)).
AllocConservation ==
    apc = "done" => Sum(widths) = Max2(target, Sum(minimums))

AllocConservationWitness ==
    /\ apc = "done" /\ cursor # 0
    /\ Sum(minimums) > 0
    /\ Sum(widths) = target
    /\ \E i \in DOMAIN widths : widths[i] = minimums[i]
    /\ \E i \in DOMAIN widths : widths[i] > minimums[i]

\* C8: at every step of the allocator and after it has returned, under every
\* policy, widths[i] >= minimums[i] for every column i.
AllocFloor ==
    \A i \in DOMAIN widths : widths[i] >= minimums[i]

AllocFloorWitness ==
    /\ apc = "done" /\ cursor # 0
    /\ Sum(widths) > target
    /\ \A i \in DOMAIN widths : widths[i] = minimums[i] /\ minimums[i] > 0

\* a round of the loop: exactly one column loses exactly 1, the others keep
\* their width, and the running total loses 1
one_decrement ==
    /\ \E i \in DOMAIN widths :
          /\ widths'[i] = widths[i] - 1
          /\ \A j \in DOMAIN widths \ {i} : widths'[j] = widths[j]
    /\ DOMAIN widths' = DOMAIN widths
    /\ total' = total - 1

\* the loop has nothing left to do
alloc_finished == total = target \/ Eligible(widths, minimums) = {}

\* what a step of the running allocator may be
alloc_round ==
    apc = "run" =>
        \/ apc' = "run" /\ ~alloc_finished /\ one_decrement
        \/ apc' = "done" /\ alloc_finished /\ widths' = widths /\ total' = total

\* C20: under every policy the allocator terminates; each round of its loop
\* takes exactly 1 from exactly one column and 1 from the running total and
\* leaves the other columns alone; the loop stops exactly when the running
\* total equals the target or no column is above its minimum; the running
\* total, which is the sum of the widths, never goes below the target, so
\* there are at most (total at the call) - target rounds.
AllocProgress ==
    /\ [][alloc_round]_vars
    /\ [](apc \in {"run", "done"} => (total >= target /\ total = Sum(widths)))
    /\ [](apc = "run" => (ENABLED AllocStep <=> ~alloc_finished))
    /\ <>(apc \in {"returned", "done"})

AllocProgressWitness ==
    /\ apc = "done" /\ cursor # 0
    /\ total > target + 1
    /\ Eligible(widths, minimums) = {}
    /\ Sum(minimums) >= 2
    /\ \E i \in DOMAIN widths : minimums[i] = 0

\* the column a round of the loop has just taken 1 from is col
decremented(col) ==
    /\ apc = "run" /\ apc' = "run"
    /\ col \in DOMAIN widths
    /\ widths' = [widths EXCEPT ![col] = @ - 1]

\* col is the lowest of the widest columns among the columns of set
widest_lowest(col, set, w) ==
    /\ col \in set
    /\ \A j \in set : w[j] <= w[col]
    /\ \A j \in set : w[j] = w[col] => col <= j

\* the scenario widths [10,10,10], minimums [2,2,2], target 15 under Max:
\* every pick is the lowest of the widest columns of the whole vector
RECURSIVE max_scenario_picks(_, _, _, _)
max_scenario_picks(w, m, tot, tgt) ==
    LET col == peak("Max", w, m, 0)
    IN IF tot = tgt \/ col = 0 THEN TRUE
       ELSE /\ widest_lowest(col, DOMAIN w, w)
            /\ max_scenario_picks(decrease_one(w, col), m, tot - 1, tgt)

max_scenario ==
    /\ max_scenario_picks(<<10, 10, 10>>, <<2, 2, 2>>, 30, 15)
    /\ decrease_widths(<<10, 10, 10>>, <<2, 2, 2>>, 30, 15, "Max", 0) = <<5, 5, 5>>

sweep_distance(last, col, n) == (col - last - 1 + n) % n

\* C22: under the None policy each pick is the first column in index order,
\* starting after the column picked before (at the first column for the first
\* pick) and wrapping around, whose width exceeds its minimum: the columns
\* the sweep passes are at their minimum; and the loop ends above the target
\* only when no column exceeds its minimum.
NoneCyclesColumns ==
    /\ [][\A col \in 1..MaxCols :
             (policy = "None" /\ decremented(col)) =>
                 /\ widths[col] > minimums[col]
                 /\ cursor' = col
                 /\ \A j \in DOMAIN widths :
                       sweep_distance(cursor, j, Len(widths))
                          < sweep_distance(cursor, col, Len(widths))
                       => widths[j] = minimums[j]]_vars
    /\ [][(policy = "None" /\ apc = "run" /\ apc' = "done" /\ total # target) =>
             \A j \in DOMAIN widths : widths[j] = minimums[j]]_vars
    /\ [](policy = "None" /\ apc = "run" /\ total # target
             /\ (\E j \in DOMAIN widths : widths[j] > minimums[j])
          => ENABLED AllocStep)

\* the last column has been picked, the first is at its minimum and a later
\* one is not: the next pick wraps around and skips the first column
NoneCyclesColumnsWitness ==
    /\ policy = "None" /\ apc = "run" /\ total # target
    /\ Len(widths) = 3 /\ cursor = 3
    /\ widths[1] = minimums[1] /\ widths[2] > minimums[2]
    /\ widths[3] > minimums[3]

\* C23: at every step under the Min policy the column decremented has the
\* smallest width among the columns whose width exceeds their minimum, the
\* lowest index among ties; a column at its minimum is never picked.
MinPicksNarrowestEligible ==
    [][\A col \in 1..MaxCols :
          (policy = "Min" /\ decremented(col)) =>
              /\ widths[col] > minimums[col]
              /\ cursor' = col
              /\ \A j \in DOMAIN widths :
                    widths[j] > minimums[j] =>
                       \/ widths[j] > widths[col]
                       \/ widths[j] = widths[col] /\ col <= j]_vars

\* Min has taken from a column although a narrower one is at its minimum,
\* and it had a tie to break
MinPicksNarrowestEligibleWitness ==
    /\ policy = "Min" /\ apc = "run" /\ cursor # 0
    /\ \E j \in DOMAIN widths :
          widths[j] = minimums[j] /\ widths[j] > 0 /\ widths[j] < widths[cursor]
    /\ \E j \in DOMAIN widths :
          j > cursor /\ widths[j] = widths[cursor] + 1 /\ widths[j] > minimums[j]

\* ======================================================================
\* Properties of the options applied to a table (SpecTable)
\* ======================================================================
Positions(t) == {<<r, c>> : r \in 1..count_rows(t), c \in 1..count_cols(t)}

rewritten(pos) == \E k \in DOMAIN ops : ops[k].op \in {"wrap_text", "set"} /\ ops[k].pos = pos

\* C5: change_cell leaves the text of every cell of the entity whose width is
\* <= the target width as it was, calling neither wrap_text nor records.set
\* for it; only the cells of the entity strictly wider than the target are
\* rewritten.
ChangeCellFrame ==
    (tpc = "applied" /\ opt.kind = "cell") =>
        \A pos \in Positions(before.cells) :
            LET old == before.cells[pos[1]][pos[2]]
                fits == get_width(old, tab_width) <= opt.width
                inside == covers(opt.entity, pos[1], pos[2])
            IN /\ (fits \/ ~inside) => (cells[pos[1]][pos[2]] = old /\ ~rewritten(pos))
               /\ (inside /\ ~fits) => rewritten(pos)

ChangeCellFrameWitness ==
    /\ tpc = "applied" /\ opt.kind = "cell" /\ opt.width > 0
    /\ \E p, q \in Positions(before.cells) :
          /\ covers(opt.entity, p[1], p[2]) /\ covers(opt.entity, q[1], q[2])
          /\ get_width(before.cells[p[1]][p[2]], tab_width) = opt.width
          /\ cells[p[1]][p[2]] = before.cells[p[1]][p[2]]
          /\ cells[q[1]][q[2]] # before.cells[q[1]][q[2]]

\* C6: when the table is empty, or the target width is >= the total width of
\* the table, TableOption::change returns without running the allocator,
\* without changing a cell and without destroying or storing a cache.
ChangeNoOp ==
    (/\ tpc = "applied" /\ opt.kind = "table"
     /\ \/ is_empty(before.cells)
        \/ opt.width >= Sum(get_table_widths(before.cells, tab_width))) =>
        /\ ops = <<>>
        /\ cells = before.cells
        /\ width_cache = before.width_cache
        /\ height_cache = before.height_cache

ChangeNoOpWitness ==
    /\ tpc = "applied" /\ opt.kind = "table"
    /\ ~is_empty(before.cells)
    /\ opt.width >= Sum(get_table_widths(before.cells, tab_width))
    /\ before.width_cache.valid /\ before.height_cache
    /\ width_cache = before.width_cache /\ height_cache

\* the widths decrease_widths leaves for the table the option was applied to
allocated_widths ==
    LET ws == get_table_widths(before.cells, tab_width)
    IN decrease_widths(ws, get_min_widths(before.cells), Sum(ws), opt.width, opt.policy, 0)

\* C15: in wrap_total_width decrease_widths is done before
\* get_decrease_cell_list, the list is made before the first cell is
\* rewritten, and every cell that is rewritten is wrapped from its text as it
\* was before the pass, at the width decrease_widths left for its column and
\* with the keep_words of the option.
WrapSequencing ==
    (tpc = "applied" /\ opt.kind = "table" /\ ops # <<>>) =>
        LET aw == allocated_widths
        IN /\ Len(ops) >= 2
           /\ ops[1].op = "decrease_widths"
           /\ ops[2].op = "get_decrease_cell_list"
           /\ \A k \in 3..Len(ops) :
                 ops[k].op \notin {"decrease_widths", "get_decrease_cell_list"}
           /\ \A k \in DOMAIN ops :
                 ops[k].op \in {"wrap_text", "set"} => ops[k].width = aw[ops[k].pos[2]]
           /\ \A pos \in Positions(before.cells) :
                 LET old == before.cells[pos[1]][pos[2]]
                     w == aw[pos[2]]
                 IN IF get_width(old, tab_width) > w
                    THEN /\ rewritten(pos)
                         /\ cells[pos[1]][pos[2]]
                               = wrap(color, replace_tab(old, tab_width), w, opt.keep_words)
                    ELSE /\ ~rewritten(pos)
                         /\ cells[pos[1]][pos[2]] = old

WrapSequencingWitness ==
    /\ tpc = "applied" /\ opt.kind = "table" /\ opt.keep_words
    /\ \E p, q \in Positions(before.cells) :
          /\ p[2] # q[2]
          /\ rewritten(p) /\ rewritten(q)
          /\ allocated_widths[p[2]] # allocated_widths[q[2]]
          /\ allocated_widths[p[2]] > 0 /\ allocated_widths[q[2]] > 0
          /\ cells[p[1]][p[2]] # before.cells[p[1]][p[2]]
          /\ cells[q[1]][q[2]] # before.cells[q[1]][q[2]]

cache_ops == {"destroy_width_cache", "destroy_height_cache", "cache_width"}

\* C16: whenever wrap_total_width ran, the height cache is destroyed and the
\* width cache holds exactly the widths decrease_widths left; cache_width is
\* the last cache operation, after the destroy_width_cache of every
\* change_cell and after the final destroy_height_cache and
\* destroy_width_cache.
CacheAfterWrap ==
    (tpc = "applied" /\ opt.kind = "table" /\ ops # <<>>) =>
        /\ ~height_cache
        /\ width_cache = cached(allocated_widths)
        /\ Len(ops) >= 3
        /\ ops[Len(ops)].op = "cache_width"
        /\ ops[Len(ops) - 1].op = "destroy_width_cache"
        /\ ops[Len(ops) - 2].op = "destroy_height_cache"
        /\ \A k \in 1..(Len(ops) - 1) : ops[k].op # "cache_width"
        /\ \A k \in 1..(Len(ops) - 3) : ops[k].op # "destroy_height_cache"
        /\ \A k \in DOMAIN ops :
              ops[k].op = "set" =>
                 \E j \in (k + 1)..(Len(ops) - 3) : ops[j].op = "destroy_width_cache"

CacheAfterWrapWitness ==
    /\ tpc = "applied" /\ opt.kind = "table"
    /\ before.width_cache.valid /\ before.height_cache
    /\ before.width_cache.widths # allocated_widths
    /\ width_cache = cached(allocated_widths) /\ ~height_cache
    /\ \E k \in DOMAIN ops : ops[k].op = "set"
    /\ Cardinality({k \in DOMAIN ops : ops[k].op = "destroy_width_cache"}) >= 3

\* ======================================================================
\* Properties of the derive macro (SpecDerive)
\* ======================================================================
\* the fields that are not ignored, by number, in order
kept_fields == SelectSeq([k \in DOMAIN fields |-> k], LAMBDA k : ~fields[k].ignored)

\* the bound check of info_from_fields passes
orders_in_bound ==
    \A k \in DOMAIN fields :
        (~fields[k].ignored /\ fields[k].has_order) => fields[k].order < Len(fields)

\* the order entry of field k survives: no later field asks for the same order
order_survives(k) ==
    /\ ~fields[k].ignored /\ fields[k].has_order
    /\ \A j \in DOMAIN fields :
          (j > k /\ ~fields[j].ignored /\ fields[j].has_order)
             => fields[j].order # fields[k].order

\* C28: for every list of fields whose order attributes pass the bound check
\* of info_from_fields, with ignored fields and with two fields asking for
\* the same order too, reorder_fields completes without an index out of range
\* and returns a permutation of the fields that are not ignored, each field
\* with a surviving order entry at the position it asks for and the other
\* fields in their original relative order in the other positions.
ReorderPermutation ==
    (dpc = "expanded" /\ orders_in_bound /\ fields # <<>>) =>
        /\ expansion.kind = "ok"
        /\ Len(expansion.values) = Len(kept_fields)
        /\ \A k \in DOMAIN kept_fields :
              \E p \in DOMAIN expansion.values : expansion.values[p] = kept_fields[k]
        /\ \A k \in DOMAIN fields :
              order_survives(k) => expansion.values[fields[k].order + 1] = k
        /\ \A p, q \in DOMAIN expansion.values :
              (p < q /\ ~order_survives(expansion.values[p])
                     /\ ~order_survives(expansion.values[q]))
                 => expansion.values[p] < expansion.values[q]

====
